---------------------------- MODULE Spec2Model ----------------------------
(***************************************************************************)
(* A model of the coros-analyzer activity analysis engine:                 *)
(*   - services/physiology (src/unnamed/part_001): calculateGAP,           *)
(*     calculateDecoupling, calculateZones, getZoneDistribution,           *)
(*     calculateTrainingEffect                                             *)
(*   - services/plans and services/tcxParser (src/services/plans.ts):      *)
(*     getScaledPlan, PLANS, calculateCompliance, parseTCX                 *)
(*   - App.handleFileUpload and the App state (src/App.tsx)                *)
(*                                                                         *)
(* Numbers.  Timestamps are whole seconds, distances and altitudes whole   *)
(* metres, heart rates whole beats: on these the sums and differences the  *)
(* code takes are exact in double precision.  A value the code obtains by  *)
(* a division or by a decimal factor is kept as an exact fraction <<n, d>> *)
(* with d >= 0; d = 0 encodes the IEEE specials (<<1,0>> = Infinity,       *)
(* <<-1,0>> = -Infinity, <<0,0>> = NaN), so that a division by zero gives  *)
(* what JavaScript gives.  A missing or unparseable field is NaN.          *)
(***************************************************************************)
EXTENDS Integers, Sequences, FiniteSets, TLC

VARIABLES
    settings,      \* App: UserSettings (the fields the engine reads)
    runs,          \* App: run history, most recent first
    activeRunId,   \* App: id of the run shown, or NoRun
    view,          \* App: 'dashboard' | 'run' | 'plan' | 'settings'
    loading,       \* App: the loading flag
    pending,       \* App: uploads whose parseTCX promise has not settled yet
    alert,         \* App: the message window.alert showed last, or NoAlert
    PLANS,         \* services/plans: the plan templates (a mutable JS object)
    fn,            \* engine call: name of the function last applied
    arg,           \* engine call: its arguments
    ret            \* engine call: its result

appVars == <<settings, runs, activeRunId, view, loading, pending, alert>>
callVars == <<fn, arg, ret>>
vars == <<settings, runs, activeRunId, view, loading, pending, PLANS, fn, arg, ret, alert>>

---------------------------------------------------------------------------
(* JavaScript numbers *)

\* parseFloat / parseInt of a missing or non-numeric text, an undefined
\* TrackPoint field, getTime() of an Invalid Date.
NaN == -1000000

isNaN(x) == x = NaN

\* x || 0
OrZero(x) == IF isNaN(x) THEN 0 ELSE x

\* a - b on numbers that may be NaN
Minus(a, b) == IF isNaN(a) \/ isNaN(b) THEN NaN ELSE a - b

Abs(x) == IF x < 0 THEN 0 - x ELSE x

Sign(x) == IF x > 0 THEN 1 ELSE IF x < 0 THEN 0 - 1 ELSE 0

RECURSIVE GCD(_, _)
GCD(a, b) == IF b = 0 THEN a ELSE GCD(b, a % b)

\* The fraction n/d in lowest terms with d >= 0; n/0 is Infinity, -Infinity or NaN.
Frac(n, d) ==
    LET s == IF d < 0 THEN 0 - 1 ELSE 1
        g == GCD(Abs(n), Abs(d))
    IN  IF d = 0 THEN <<Sign(n), 0>>
        ELSE <<(s * n) \div g, (s * d) \div g>>

Num(x) == IF isNaN(x) THEN <<0, 0>> ELSE <<x, 1>>

RNaN == <<0, 0>>
IsNaNR(r) == r[1] = 0 /\ r[2] = 0
IsFinite(r) == r[2] # 0

RMul(a, b) == Frac(a[1] * b[1], a[2] * b[2])
RDiv(a, b) == Frac(a[1] * b[2], a[2] * b[1])
RAdd(a, b) ==
    IF a[2] = 0 /\ b[2] = 0
    THEN (IF a[1] = b[1] THEN a ELSE RNaN)
    ELSE Frac(a[1] * b[2] + b[1] * a[2], a[2] * b[2])
RSub(a, b) == RAdd(a, <<0 - b[1], b[2]>>)

\* a < b, a <= b: false when either side is NaN
RLt(a, b) ==
    /\ ~IsNaNR(a)
    /\ ~IsNaNR(b)
    /\ IF a[2] = 0 /\ b[2] = 0 THEN a[1] < b[1] ELSE a[1] * b[2] < b[1] * a[2]
RLe(a, b) == ~IsNaNR(a) /\ ~IsNaNR(b) /\ (a = b \/ RLt(a, b))
RGt(a, b) == RLt(b, a)
RGe(a, b) == RLe(b, a)

RMax(a, b) == IF IsNaNR(a) \/ IsNaNR(b) THEN RNaN ELSE IF RLt(a, b) THEN b ELSE a
RMin(a, b) == IF IsNaNR(a) \/ IsNaNR(b) THEN RNaN ELSE IF RLt(b, a) THEN b ELSE a
RAbs(a) == <<Abs(a[1]), a[2]>>

\* Math.round of a finite fraction: floor(x + 0.5)
MathRound(r) == (2 * r[1] + r[2]) \div (2 * r[2])

\* decimal literals of the source: Dec(6, 10) is 0.60
Dec(n, d) == Frac(n, d)

---------------------------------------------------------------------------
(* types.ts *)

HRZoneMethod == {"MAX_HR", "KARVONEN"}
RunnerLevel == {"BEGINNER", "INTERMEDIATE", "PRO"}

\* TrackPoint: time (getTime()/1000, NaN for an Invalid Date), altitude,
\* distance, hr (NaN for undefined).  lat and lng are read by no computation.
TrackPoint(time, altitude, distance, hr) ==
    [time |-> time, altitude |-> altitude, distance |-> distance, hr |-> hr]

---------------------------------------------------------------------------
(* services/physiology: calculateZones *)

ZoneLabels == <<"Z1 Recovery", "Z2 Aerobic", "Z3 Tempo", "Z4 Threshold", "Z5 Anaerobic">>

\* restingHR + hrReserve * p
KarvonenBoundary(s, p) ==
    RAdd(Num(s.restingHR), RMul(Num(s.maxHR - s.restingHR), p))

\* maxHR * p
MaxHRBoundary(s, p) == RMul(Num(s.maxHR), p)

\* the boundary were the method not consulted
ZoneBoundaryOfMaxOnly(s, p) == MaxHRBoundary(s, p)

ZoneBoundary(s, p) ==
    IF s.method = "KARVONEN" THEN KarvonenBoundary(s, p) ELSE MaxHRBoundary(s, p)

\* the breakpoints 0.50 .. 0.90 of the five bands (the sixth, 1.00, is maxHR itself)
Breakpoint(i) == Dec(4 + i, 10)

calculateZones(s) ==
    [i \in 1..5 |->
        [label |-> ZoneLabels[i],
         min   |-> MathRound(ZoneBoundary(s, Breakpoint(i))),
         max   |-> IF i = 5 THEN s.maxHR
                   ELSE MathRound(ZoneBoundary(s, Breakpoint(i + 1)))]]

---------------------------------------------------------------------------
(* services/physiology: getZoneDistribution *)

\* p1.hr && p2.hr
BothHR(p1, p2) == OrZero(p1.hr) # 0 /\ OrZero(p2.hr) # 0

\* (p1.hr + p2.hr) / 2
AvgHr(p1, p2) == Frac(p1.hr + p2.hr, 2)

\* (p2.time.getTime() - p1.time.getTime()) / 1000
Seconds(p1, p2) == Minus(p2.time, p1.time)

\* duration > 0 && duration < 30
Counted(duration) == ~isNaN(duration) /\ duration > 0 /\ duration < 30

\* avgHr >= d.min && avgHr < (d.max + 1)
InZone(avgHr, d) == RGe(avgHr, Num(d.min)) /\ RLt(avgHr, Num(d.max + 1))

\* the index were that of the last matching zone
FindZoneLast(avgHr, zones) ==
    IF \E i \in 1..5 : InZone(avgHr, zones[i])
    THEN CHOOSE i \in 1..5 :
            /\ InZone(avgHr, zones[i])
            /\ \A j \in (i + 1)..5 : ~InZone(avgHr, zones[j])
    ELSE 0

\* distribution.findIndex(...): the first matching zone, 0 for -1
FindZone(avgHr, zones) ==
    IF \E i \in 1..5 : InZone(avgHr, zones[i])
    THEN CHOOSE i \in 1..5 :
            /\ InZone(avgHr, zones[i])
            /\ \A j \in 1..(i - 1) : ~InZone(avgHr, zones[j])
    ELSE 0

\* the pair were credited to the zone found only, without the overflow rule
CreditedZoneFoundOnly(avgHr, zones, s) == FindZone(avgHr, zones)

\* the zone a counted pair is credited to, 0 when it is credited to none
CreditedZone(avgHr, zones, s) ==
    LET zoneIdx == FindZone(avgHr, zones)
    IN  IF zoneIdx # 0 THEN zoneIdx
        ELSE IF RGe(avgHr, Num(s.maxHR)) THEN 5
        ELSE 0

\* one iteration of the loop over consecutive pairs
ZoneStep(acc, p1, p2, zones, s) ==
    IF BothHR(p1, p2) /\ Counted(Seconds(p1, p2))
    THEN LET duration == Seconds(p1, p2)
             z == CreditedZone(AvgHr(p1, p2), zones, s)
             credit(i) == IF i = z THEN acc.seconds[i] + duration
                          ELSE acc.seconds[i]
         IN  [totalValidSeconds |-> acc.totalValidSeconds + duration,
              seconds |-> <<credit(1), credit(2), credit(3), credit(4), credit(5)>>]
    ELSE acc

\* for (let i = lo; i <= hi; i++), run in order: the first half of the range is
\* run to its end, then the second half from the result
RECURSIVE ZoneLoop(_, _, _, _, _, _)
ZoneLoop(acc, points, lo, hi, zones, s) ==
    IF lo > hi THEN acc
    ELSE IF lo = hi THEN ZoneStep(acc, points[lo - 1], points[lo], zones, s)
    ELSE LET mid == (lo + hi) \div 2
             left == ZoneLoop(acc, points, lo, mid, zones, s)
         IN  IF left.totalValidSeconds >= 0
             THEN ZoneLoop(left, points, mid + 1, hi, zones, s)
             ELSE left

\* totalValidSeconds > 0 ? (d.seconds / totalValidSeconds) * 100 : 0
Percentage(seconds, totalValidSeconds) ==
    IF totalValidSeconds > 0
    THEN RMul(RDiv(Num(seconds), Num(totalValidSeconds)), Num(100))
    ELSE Num(0)

\* the loop's totals, before the percentages are taken
ZoneTotals(run, s) ==
    ZoneLoop([totalValidSeconds |-> 0, seconds |-> <<0, 0, 0, 0, 0>>],
             run.points, 2, Len(run.points), calculateZones(s), s)

getZoneDistribution(run, s) ==
    LET zones == calculateZones(s)
        acc == ZoneTotals(run, s)
    IN  [i \in 1..5 |->
            [zone |-> i,
             label |-> zones[i].label,
             min |-> zones[i].min,
             max |-> zones[i].max,
             seconds |-> acc.seconds[i],
             percentage |-> Percentage(acc.seconds[i], acc.totalValidSeconds)]]

---------------------------------------------------------------------------
(* services/physiology: calculateTrainingEffect *)

\* the score were zone 4 weighted like zone 3
TrainingScoreFlatZ4(dist) ==
    RDiv(RAdd(RAdd(RMul(Num(dist[3].seconds), Dec(5, 10)),
                   RMul(Num(dist[4].seconds), Dec(5, 10))),
              RMul(Num(dist[5].seconds), Dec(30, 10))), Num(60))

\* const score = (z3 * 0.5 + z4 * 1.5 + z5 * 3.0) / 60
TrainingScore(dist) ==
    RDiv(RAdd(RAdd(RMul(Num(dist[3].seconds), Dec(5, 10)),
                   RMul(Num(dist[4].seconds), Dec(15, 10))),
              RMul(Num(dist[5].seconds), Dec(30, 10))), Num(60))

\* the if / else if chain that sets effect
PiecewiseEffect(score) ==
    IF RLt(score, Num(10)) THEN RAdd(Dec(10, 10), RDiv(score, Num(10)))
    ELSE IF RLt(score, Num(30))
         THEN RAdd(Dec(20, 10), RDiv(RSub(score, Num(10)), Num(20)))
    ELSE IF RLt(score, Num(60))
         THEN RAdd(Dec(30, 10), RDiv(RSub(score, Num(30)), Num(30)))
    ELSE IF RLt(score, Num(120))
         THEN RAdd(Dec(40, 10), RDiv(RSub(score, Num(60)), Num(60)))
    ELSE Dec(50, 10)

\* Math.min(5.0, Math.round(effect * 10) / 10), from the distribution's seconds
EffectOf(dist) ==
    RMin(Dec(50, 10),
         Frac(MathRound(RMul(PiecewiseEffect(TrainingScore(dist)), Num(10))), 10))

calculateTrainingEffect(run, s) == EffectOf(getZoneDistribution(run, s))

---------------------------------------------------------------------------
(* services/tcxParser: parseTCX *)

\* A file is the sequence of its Trackpoint elements, each given by what
\* new Date(..).getTime()/1000, parseFloat and parseInt make of its texts:
\* [time, altitude, distance, hr], NaN where the text is missing or not a number.

\* the accumulators declared before the loop (lastAlt: NaN stands for null)
ParseStart ==
    [totalAscent |-> 0, totalDescent |-> 0, lastAlt |-> NaN,
     maxHR |-> 0, hrSum |-> 0, hrCount |-> 0, movingTime |-> 0,
     maxPace |-> Num(0)]

\* timeDiff > 0 && timeDiff < 15
MovingWindow(timeDiff) == ~isNaN(timeDiff) /\ timeDiff > 0 /\ timeDiff < 15

\* distDiff / timeDiff > 0.5
IsMoving(distDiff, timeDiff) == RGt(RDiv(Num(distDiff), Num(timeDiff)), Dec(5, 10))

\* timeDiff / (distDiff / 1000)
CurrentPace(distDiff, timeDiff) ==
    RDiv(Num(timeDiff), RDiv(Num(distDiff), Num(1000)))

\* the maxPace update inside the window
NextMaxPace(maxPace, currentPace) ==
    IF RGt(currentPace, Num(120)) /\ RLt(currentPace, Num(1200))
       /\ (maxPace = Num(0) \/ RLt(currentPace, maxPace))
    THEN currentPace
    ELSE maxPace

\* the point pushed for Trackpoint tp
ParsePoint(tp) == TrackPoint(tp.time, tp.altitude, tp.distance, tp.hr)

\* points after the loop: one point per Trackpoint, in file order
ParsePoints(file) == [i \in 1..Len(file) |-> ParsePoint(file[i])]

\* the carry were overwritten by every Trackpoint, with or without altitude
NextLastAltOfEvery(lastAlt, altitude) == altitude

\* if (!isNaN(altitude)) lastAlt = altitude
NextLastAlt(lastAlt, altitude) ==
    IF ~isNaN(altitude) THEN altitude ELSE lastAlt

\* the body of trackpoints.forEach for Trackpoint number i (from 1) of the file;
\* prev is points[points.length - 1]
ParseStep(acc, file, i) ==
    LET tp == file[i]
        first == i = 1
        prev == ParsePoint(file[i - 1])
        timeDiff == Minus(tp.time, prev.time)
        distDiff == OrZero(tp.distance) - OrZero(prev.distance)
        inWindow == ~first /\ MovingWindow(timeDiff)
        diff == tp.altitude - acc.lastAlt
        climbs == ~first /\ ~isNaN(tp.altitude) /\ ~isNaN(acc.lastAlt)
    IN  [movingTime |->
            IF inWindow /\ IsMoving(distDiff, timeDiff)
            THEN acc.movingTime + timeDiff ELSE acc.movingTime,
         maxPace |->
            IF inWindow THEN NextMaxPace(acc.maxPace, CurrentPace(distDiff, timeDiff))
            ELSE acc.maxPace,
         totalAscent |->
            IF climbs /\ diff > 0 THEN acc.totalAscent + diff ELSE acc.totalAscent,
         totalDescent |->
            IF climbs /\ diff < 0 THEN acc.totalDescent + Abs(diff)
            ELSE acc.totalDescent,
         lastAlt |-> NextLastAlt(acc.lastAlt, tp.altitude),
         maxHR |-> IF ~isNaN(tp.hr) /\ tp.hr > acc.maxHR THEN tp.hr ELSE acc.maxHR,
         hrSum |-> IF ~isNaN(tp.hr) THEN acc.hrSum + tp.hr ELSE acc.hrSum,
         hrCount |-> IF ~isNaN(tp.hr) THEN acc.hrCount + 1 ELSE acc.hrCount]

\* trackpoints.forEach over Trackpoints lo..hi, in order: the first half of the range is
\* run to its end, then the second half from the result
RECURSIVE ParseLoop(_, _, _, _)
ParseLoop(acc, file, lo, hi) ==
    IF lo > hi THEN acc
    ELSE IF lo = hi THEN ParseStep(acc, file, lo)
    ELSE LET mid == (lo + hi) \div 2
             left == ParseLoop(acc, file, lo, mid)
         IN  IF left.hrCount >= 0
             THEN ParseLoop(left, file, mid + 1, hi)
             ELSE left

\* const thresholdPace = 300
thresholdPace == 300

\* the ratio were computed without the elapsedTime > 0 guard
MovementRatioUnguarded(movingTime, elapsedTime) ==
    RMul(RDiv(Num(movingTime), Num(elapsedTime)), Num(100))

\* elapsedTime > 0 ? (movingTime / elapsedTime) * 100 : 0
MovementRatio(movingTime, elapsedTime) ==
    IF ~isNaN(elapsedTime) /\ elapsedTime > 0
    THEN RMul(RDiv(Num(movingTime), Num(elapsedTime)), Num(100))
    ELSE Num(0)

\* the derived fields and the RunData returned; now is new Date()
Summarize(acc, points, now) ==
    LET n == Len(points)
        movingTime == acc.movingTime
        totalDistance == IF n > 0 THEN OrZero(points[n].distance) ELSE 0
        startTime == IF n > 0 THEN points[1].time ELSE now
        endTime == IF n > 0 THEN points[n].time ELSE now
        elapsedTime == Minus(endTime, startTime)
        avgHR == IF acc.hrCount > 0 THEN RDiv(Num(acc.hrSum), Num(acc.hrCount))
                 ELSE Num(0)
        avgPace == IF movingTime > 0
                   THEN RDiv(Num(movingTime), RDiv(Num(totalDistance), Num(1000)))
                   ELSE Num(0)
        aerobicEfficiency ==
            IF RGt(avgHR, Num(0))
            THEN RMul(RDiv(Num(totalDistance), Num(acc.hrSum)), Num(100))
            ELSE Num(0)
        movementRatio == MovementRatio(movingTime, elapsedTime)
        vam == IF movingTime > 0
               THEN RMul(RDiv(Num(acc.totalAscent), Num(movingTime)), Num(3600))
               ELSE Num(0)
        intensityFactor ==
            IF RGt(avgPace, Num(0)) THEN RDiv(Num(thresholdPace), avgPace)
            ELSE Num(0)
    IN  [id |-> startTime,
         startTime |-> startTime,
         points |-> points,
         summary |->
            [totalDistance |-> totalDistance,
             elapsedTime |-> elapsedTime,
             movingTime |-> movingTime,
             avgHR |-> MathRound(avgHR),
             maxHR |-> acc.maxHR,
             totalAscent |-> acc.totalAscent,
             totalDescent |-> acc.totalDescent,
             avgPace |-> avgPace,
             maxPace |-> acc.maxPace,
             calories |-> MathRound(RMul(RDiv(Num(totalDistance), Num(1000)), Num(70))),
             fitnessScore |->
                MathRound(RDiv(RMul(avgHR, RDiv(Num(movingTime), Num(3600))), Num(10))),
             intensityFactor |-> intensityFactor,
             variabilityIndex |-> Dec(105, 100),
             aerobicEfficiency |-> aerobicEfficiency,
             movementRatio |-> movementRatio,
             vam |-> vam,
             trainingEffect |-> Num(0)]]

parseTCX(file, now) ==
    Summarize(ParseLoop(ParseStart, file, 1, Len(file)), ParsePoints(file), now)

---------------------------------------------------------------------------
(* services/physiology: calculateGAP *)

calculateGAP(p1, p2) ==
    LET dist == OrZero(p2.distance) - OrZero(p1.distance)
        elev == OrZero(p2.altitude) - OrZero(p1.altitude)
        time == Minus(p2.time, p1.time)
        grade == RDiv(Num(elev), Num(dist))
        adjFactor == RAdd(RAdd(Num(1), RMul(grade, Num(3))),
                          RMul(RMul(grade, grade), Num(10)))
        actualPace == RDiv(Num(time), RDiv(Num(dist), Num(1000)))
    IN  IF dist <= 0 \/ (~isNaN(time) /\ time <= 0) THEN Num(0)
        ELSE RDiv(actualPace, adjFactor)

---------------------------------------------------------------------------
(* services/physiology: calculateDecoupling *)

\* the "not computable" result
null == <<>>

\* if (run.points.length < 100) return null
MinDecouplingPoints == 100

\* p.hr && p.distance
HasHrAndDistance(p) == OrZero(p.hr) # 0 /\ OrZero(p.distance) # 0

\* one iteration of getEfficiency's loop; timeSum is a fraction, as it may become NaN
EfficiencyStep(acc, prev, p) ==
    IF HasHrAndDistance(p)
    THEN [hrSum |-> acc.hrSum + p.hr,
          distSum |-> acc.distSum + (p.distance - OrZero(prev.distance)),
          timeSum |-> RAdd(acc.timeSum, Num(Minus(p.time, prev.time))),
          count |-> acc.count + 1]
    ELSE acc

\* for (let i = lo; i <= hi; i++), run in order: the first half of the range is
\* run to its end, then the second half from the result
RECURSIVE EfficiencyLoop(_, _, _, _)
EfficiencyLoop(acc, pts, lo, hi) ==
    IF lo > hi THEN acc
    ELSE IF lo = hi THEN EfficiencyStep(acc, pts[lo - 1], pts[lo])
    ELSE LET mid == (lo + hi) \div 2
             left == EfficiencyLoop(acc, pts, lo, mid)
         IN  IF left.count >= 0
             THEN EfficiencyLoop(left, pts, mid + 1, hi)
             ELSE left

EfficiencySums(pts) ==
    EfficiencyLoop([hrSum |-> 0, distSum |-> 0, timeSum |-> Num(0), count |-> 0],
                   pts, 2, Len(pts))

getEfficiency(pts) ==
    LET a == EfficiencySums(pts)
        avgHr == RDiv(Num(a.hrSum), Num(a.count))
        paceKmMin == RDiv(RDiv(a.timeSum, Num(60)), RDiv(Num(a.distSum), Num(1000)))
    IN  IF a.count = 0 \/ a.distSum = 0 THEN Num(0)
        ELSE RDiv(RDiv(Num(1), paceKmMin), avgHr)

\* run.points.slice(0, midPointIdx) and run.points.slice(midPointIdx)
FirstHalf(points) == SubSeq(points, 1, Len(points) \div 2)
SecondHalf(points) == SubSeq(points, (Len(points) \div 2) + 1, Len(points))

calculateDecoupling(run) ==
    LET eff1 == getEfficiency(FirstHalf(run.points))
        eff2 == getEfficiency(SecondHalf(run.points))
    IN  IF Len(run.points) < MinDecouplingPoints THEN null
        ELSE IF eff1 = Num(0) \/ eff2 = Num(0) THEN null
        ELSE RMul(RDiv(RSub(eff1, eff2), eff1), Num(100))

---------------------------------------------------------------------------
(* services/plans: PLANS, getScaledPlan, calculateCompliance *)

Session(id, day, title, description, targetDuration, targetZone) ==
    [id |-> id, day |-> day, title |-> title, description |-> description,
     targetDuration |-> targetDuration, targetZone |-> targetZone]

\* the PLANS literal
PlanTemplates ==
    [c25k |->
        [id |-> "c25k", name |-> "Couch to 5K", sessions |-> <<
            Session("c25k_w1d1", 1, "W1D1: Intro", "60s run / 90s walk repeats", 20, 2),
            Session("c25k_w1d2", 3, "W1D2: Consistency", "60s run / 90s walk repeats", 20, 2),
            Session("c25k_w1d3", 5, "W1D3: Push", "60s run / 90s walk repeats", 20, 2),
            Session("c25k_w3d1", 15, "W3D1: Progression", "2 min run / 1 min walk", 25, 2),
            Session("c25k_w5d3", 33, "W5D3: The Wall", "Continuous 20 minute run", 20, 3),
            Session("c25k_final", 63, "Final Graduation", "30-45 minute steady run", 30, 3)>>],
     run10k |->
        [id |-> "run10k", name |-> "10K Finisher", sessions |-> <<
            Session("10k_w1d1", 1, "Foundation", "Easy base run", 30, 2),
            Session("10k_w2d1", 8, "Intervals", "4x400m fast with rest", 35, 4),
            Session("10k_w4d1", 22, "Threshold Work", "10 min warm up, 15 min Z4", 40, 4),
            Session("10k_long", 14, "Long Run", "Slow steady distance", 50, 2)>>]]

PlanIds == DOMAIN PlanTemplates

\* PLANS[planId] for an id that is no key of PLANS
undefined == [undefined |-> TRUE]

\* multipliers[level]
multipliers(level) ==
    CASE level = "BEGINNER" -> Dec(10, 10)
      [] level = "INTERMEDIATE" -> Dec(13, 10)
      [] level = "PRO" -> Dec(17, 10)

\* { ...s, targetDuration: Math.round(s.targetDuration * multipliers[level]) }
ScaledSession(s, level) ==
    [s EXCEPT !.targetDuration = MathRound(RMul(Num(s.targetDuration), multipliers(level)))]

\* the value getScaledPlan returns, reading the templates in plans
getScaledPlan(plans, planId, level) ==
    IF planId \notin DOMAIN plans THEN undefined
    ELSE LET basePlan == plans[planId]
         IN  [basePlan EXCEPT !.sessions =
                [i \in 1..Len(basePlan.sessions) |->
                    ScaledSession(basePlan.sessions[i], level)]]

\* the templates were the scaled durations assigned into basePlan's sessions
PlansScaledInPlace(plans, planId, level) ==
    IF planId \notin DOMAIN plans THEN plans
    ELSE [plans EXCEPT ![planId] = getScaledPlan(plans, planId, level)]

\* the templates after a call of getScaledPlan: map and the spreads build new
\* objects, nothing is assigned into basePlan
PlansAfterScaling(plans, planId, level) == plans

\* let intensityScore = 80
intensityScore == 80

\* the score were the duration difference taken without Math.abs
ComplianceScoreSigned(session, run) ==
    LET target == Num(session.targetDuration)
        durationDiff == RSub(RDiv(Num(run.summary.movingTime), Num(60)), target)
        durationScore ==
            RMax(Num(0), RSub(Num(100), RMul(RDiv(durationDiff, target), Num(100))))
    IN  MathRound(RAdd(RMul(durationScore, Dec(7, 10)),
                       RMul(Num(intensityScore), Dec(3, 10))))

\* the score of calculateCompliance
ComplianceScore(session, run) ==
    LET target == Num(session.targetDuration)
        durationDiff == RAbs(RSub(RDiv(Num(run.summary.movingTime), Num(60)), target))
        durationScore ==
            RMax(Num(0), RSub(Num(100), RMul(RDiv(durationDiff, target), Num(100))))
    IN  MathRound(RAdd(RMul(durationScore, Dec(7, 10)),
                       RMul(Num(intensityScore), Dec(3, 10))))

\* the notes were the thresholds compared with >=
ComplianceNotesFromThreshold(score, run) ==
    LET notes == IF score >= 85 THEN "Excellent adherence to plan."
                 ELSE "Session intensity or duration deviated."
    IN  IF RGe(run.summary.trainingEffect, Dec(45, 10))
        THEN notes \o " High fatigue risk." ELSE notes

\* the notes of calculateCompliance
ComplianceNotes(score, run) ==
    LET notes == IF score > 85 THEN "Excellent adherence to plan."
                 ELSE "Session intensity or duration deviated."
    IN  IF RGt(run.summary.trainingEffect, Dec(45, 10))
        THEN notes \o " High fatigue risk." ELSE notes

calculateCompliance(session, run) ==
    LET score == ComplianceScore(session, run)
    IN  [score |-> score, notes |-> ComplianceNotes(score, run)]

---------------------------------------------------------------------------
(* Inputs *)

\* the longest file enumerated sample by sample
MaxPoints == 3

\* the most segments a generated file is made of
MaxSegs == 2

\* all files of at most n Trackpoints drawn from samples
RECURSIVE FilesUpTo(_, _)
FilesUpTo(samples, n) ==
    IF n = 0 THEN {<<>>}
    ELSE LET shorter == FilesUpTo(samples, n - 1)
         IN  shorter \cup {Append(f, x) : f \in {g \in shorter : Len(g) = n - 1},
                                          x \in samples}

\* A segment stands for n consecutive Trackpoints recorded every dt seconds,
\* each dd metres further and da metres higher than the one before, at heart
\* rate hr; noTime, noDist: the Trackpoints carry no Time, no DistanceMeters.
Seg(n, dt, dd, da, hr, noTime, noDist) ==
    [n |-> n, dt |-> dt, dd |-> dd, da |-> da, hr |-> hr,
     noTime |-> noTime, noDist |-> noDist]

\* the Trackpoints of segment g, the Trackpoint before it being at (t, d, a);
\* the very first Trackpoint of a file is at (t, d, a) itself
SegPoints(g, t, d, a, start) ==
    LET off == IF start THEN 1 ELSE 0
    IN  [j \in 1..g.n |->
            [time |-> IF g.noTime THEN NaN ELSE t + (j - off) * g.dt,
             altitude |-> a + (j - off) * g.da,
             distance |-> IF g.noDist THEN NaN ELSE d + (j - off) * g.dd,
             hr |-> g.hr]]

RECURSIVE TrackFrom(_, _, _, _, _, _)
TrackFrom(segs, k, t, d, a, out) ==
    IF k > Len(segs) THEN out
    ELSE LET g == segs[k]
             start == Len(out) = 0
             steps == IF start THEN g.n - 1 ELSE g.n
         IN  TrackFrom(segs, k + 1, t + steps * g.dt, d + steps * g.dd,
                       a + steps * g.da, out \o SegPoints(g, t, d, a, start))

\* the file the segments describe, starting at time 0, 0 m, altitude 100 m
Track(segs) == TrackFrom(segs, 1, 0, 0, 100, <<>>)

\* all sequences of at most n segments
SegLists(segset, n) == FilesUpTo(segset, n)

---------------------------------------------------------------------------
(* The App state (src/App.tsx) *)

\* A run's id is run_<startTime.getTime()>: the model keeps the number (NaN for
\* run_NaN).  NoRun is the null of activeRunId and the undefined of a
\* completedSessions lookup.
NoRun == -1

\* activePlanId undefined
NoPlan == ""

\* no alert was shown yet
NoAlert == ""

\* the ids of all sessions of all plans
SessionIds ==
    UNION {{PlanTemplates[p].sessions[i].id : i \in 1..Len(PlanTemplates[p].sessions)} :
           p \in PlanIds}

\* completedSessions: {}
NoneCompleted == [sid \in SessionIds |-> NoRun]

DEFAULT_SETTINGS ==
    [maxHR |-> 190, restingHR |-> 55, method |-> "KARVONEN", level |-> "BEGINNER",
     activePlanId |-> NoPlan, completedSessions |-> NoneCompleted]

\* the App after its first render with an empty localStorage
AppInit ==
    /\ settings = DEFAULT_SETTINGS
    /\ runs = <<>>
    /\ activeRunId = NoRun
    /\ view = "dashboard"
    /\ loading = FALSE
    /\ pending = <<>>
    /\ alert = NoAlert

\* no engine function is being applied
NoCall ==
    /\ fn = "none"
    /\ arg = <<>>
    /\ ret = [returned |-> FALSE]

\* The engine keeps no state between calls, so a behaviour of a call
\* specification is one call: function f is about to be applied to a
Called(f, a) ==
    /\ fn = f
    /\ arg = a
    /\ ret = [returned |-> FALSE]

\* the call of f returns r
Return(f, r) ==
    /\ fn = f
    /\ ~ret.returned
    /\ ret' = [returned |-> TRUE, value |-> r]
    /\ UNCHANGED <<settings, runs, activeRunId, view, loading, pending, PLANS, fn, arg, alert>>

\* the call of f has returned
Returned(f) == fn = f /\ ret.returned

---------------------------------------------------------------------------
(* SpecZones: the zone model applied to bounded inputs *)

MaxHRs == {0, 150, 180, 190, 200}
RestingHRs == {40, 55, 60, 190}

\* athlete settings as far as the zone model reads them
ZoneSettings == [maxHR : MaxHRs, restingHR : RestingHRs, method : HRZoneMethod]

Athlete(maxHR, restingHR, method) ==
    [maxHR |-> maxHR, restingHR |-> restingHR, method |-> method]

\* Trackpoints for the classification: a time and a heart rate, and one
\* Trackpoint without heart rate and one without time
ZoneSamples ==
    {[time |-> t, altitude |-> NaN, distance |-> NaN, hr |-> h] :
        t \in {0, 10, 25, 40}, h \in {100, 150, 195}}
      \cup {[time |-> 10, altitude |-> NaN, distance |-> NaN, hr |-> NaN],
            [time |-> NaN, altitude |-> NaN, distance |-> NaN, hr |-> 150]}

DistributionSettings ==
    {Athlete(190, 55, "KARVONEN"), Athlete(190, 55, "MAX_HR")}

\* steady efforts for the training effect: Trackpoints 25 s apart, at a heart
\* rate in zone 3, 4 or 5 of the default athlete, or below zone 1 (100)
EffortSegs ==
    {Seg(n, 25, 60, 0, h, FALSE, FALSE) : n \in {25, 48}, h \in {155, 170, 185}}
        \cup {Seg(97, 25, 60, 0, 185, FALSE, FALSE),
              Seg(25, 25, 60, 0, 100, FALSE, FALSE)}

EffortSettings == {Athlete(190, 55, "KARVONEN")}

ZoneCalls ==
    \/ \E s \in ZoneSettings : Called("calculateZones", [settings |-> s])
    \/ \E file \in FilesUpTo(ZoneSamples, MaxPoints), s \in DistributionSettings :
          Called("getZoneDistribution", [file |-> file, settings |-> s])
    \/ \E segs \in SegLists(EffortSegs, MaxSegs), s \in EffortSettings :
          Called("calculateTrainingEffect", [segs |-> segs, settings |-> s])

CallCalculateZones ==
    Return("calculateZones", calculateZones(arg.settings))

CallGetZoneDistribution ==
    Return("getZoneDistribution",
           getZoneDistribution(parseTCX(arg.file, 0), arg.settings))

CallCalculateTrainingEffect ==
    Return("calculateTrainingEffect",
           calculateTrainingEffect(parseTCX(Track(arg.segs), 0), arg.settings))

InitZones == AppInit /\ PLANS = PlanTemplates /\ ZoneCalls

NextZones ==
    \/ CallCalculateZones
    \/ CallGetZoneDistribution
    \/ CallCalculateTrainingEffect

SpecZones == InitZones /\ [][NextZones]_vars

\* ten times the exact boundary number i (1..5) of the bands of s: the
\* breakpoints are 0.5, 0.6, 0.7, 0.8, 0.9
TenfoldBoundary(s, i) ==
    IF s.method = "KARVONEN"
    THEN 10 * s.restingHR + (s.maxHR - s.restingHR) * (4 + i)
    ELSE s.maxHR * (4 + i)

\* b is x/10 rounded to the nearest whole number, a half rounded up
IsRoundedTenth(b, x) == 10 * b - 5 <= x /\ x < 10 * b + 5

\* C10 (as stated): the bands returned by calculateZones have the exact
\* boundaries boundary(p), p = 0.50 .. 0.90, each band's top being the next
\* band's bottom and the top of zone 5 being maxHR; so for 190/55 under
\* KARVONEN zone 2 is [136, 149.5).
C10_ExactBoundaries ==
    Returned("calculateZones") =>
        LET s == arg.settings
            z == ret.value
        IN  /\ \A i \in 1..5 : 10 * z[i].min = TenfoldBoundary(s, i)
            /\ \A i \in 1..4 : 10 * z[i].max = TenfoldBoundary(s, i + 1)
            /\ z[5].max = s.maxHR

\* C10 (amended): calculateZones returns 5 bands; the bottom of band i is
\* boundary(p_i) rounded to the nearest whole number (a half rounded up), the
\* top of each of bands 1..4 is the bottom of the next band, the top of band 5
\* is maxHR exactly, and no band is inverted when 0 <= restingHR <= maxHR.
C10_RoundedBoundaries ==
    Returned("calculateZones") =>
        LET s == arg.settings
            z == ret.value
        IN  /\ DOMAIN z = 1..5
            /\ \A i \in 1..5 : IsRoundedTenth(z[i].min, TenfoldBoundary(s, i))
            /\ \A i \in 1..4 : z[i].max = z[i + 1].min
            /\ z[5].max = s.maxHR
            /\ (0 <= s.restingHR /\ s.restingHR <= s.maxHR) =>
                  \A i \in 1..5 : z[i].min <= z[i].max

\* calculateZones has returned the bands of 190/55 under KARVONEN, zone 2
\* being [136, 150)
C10_Witness ==
    /\ Returned("calculateZones")
    /\ arg.settings = Athlete(190, 55, "KARVONEN")
    /\ ret.value[2].min = 136
    /\ ret.value[2].max = 150

\* the seconds credited to the five zones of distribution d
ClassifiedSeconds(d) ==
    d[1].seconds + d[2].seconds + d[3].seconds + d[4].seconds + d[5].seconds

\* the sum of the five percentages of distribution d
PercentageSum(d) ==
    RAdd(RAdd(RAdd(RAdd(d[1].percentage, d[2].percentage), d[3].percentage),
              d[4].percentage), d[5].percentage)

\* C2 (as stated): the five percentages returned by getZoneDistribution sum
\* to 100 (to within 1 for rounding) when the seconds credited to the five
\* zones are more than 0, and are all 0 otherwise; each percentage is the
\* zone's seconds over the seconds credited to the five zones.
C2_PercentagesSumTo100 ==
    Returned("getZoneDistribution") =>
        LET d == ret.value
            classified == ClassifiedSeconds(d)
        IN  IF classified > 0
            THEN /\ RLe(RAbs(RSub(PercentageSum(d), Num(100))), Num(1))
                 /\ \A i \in 1..5 :
                       d[i].percentage = Frac(100 * d[i].seconds, classified)
            ELSE \A i \in 1..5 : d[i].percentage = Num(0)

\* the distribution calculateTrainingEffect reads for the call's arguments
EffortDistribution ==
    getZoneDistribution(parseTCX(Track(arg.segs), 0), arg.settings)

\* ten times the effect, before rounding, for weighted == z3 + 3*z4 + 6*z5
\* (score = weighted / 120), as <<numerator, denominator>>
TenfoldEffect(weighted) ==
    IF weighted < 1200 THEN <<1200 + weighted, 120>>
    ELSE IF weighted < 3600 THEN <<3600 + weighted, 240>>
    ELSE IF weighted < 7200 THEN <<7200 + weighted, 360>>
    ELSE IF weighted < 14400 THEN <<21600 + weighted, 720>>
    ELSE <<50, 1>>

\* C6: calculateTrainingEffect returns the piecewise function of
\* score = (Z3s*0.5 + Z4s*1.5 + Z5s*3.0)/60, rounded to one decimal (a half
\* rounded up) and at most 5.0; the result lies in [1.0, 5.0].
C6_TrainingEffect ==
    Returned("calculateTrainingEffect") =>
        LET d == EffortDistribution
            x == TenfoldEffect(d[3].seconds + 3 * d[4].seconds + 6 * d[5].seconds)
            tenths == (2 * x[1] + x[2]) \div (2 * x[2])
        IN  /\ 10 <= tenths /\ tenths <= 50
            /\ 10 * ret.value[1] = tenths * ret.value[2]
            /\ ret.value[2] \in {1, 2, 5, 10}

\* calculateTrainingEffect has returned 2.8 for Z3 = 1200 s, Z4 = 600 s, Z5 = 0 s
C6_Witness ==
    /\ Returned("calculateTrainingEffect")
    /\ EffortDistribution[3].seconds = 1200
    /\ EffortDistribution[4].seconds = 600
    /\ EffortDistribution[5].seconds = 0
    /\ ret.value = <<14, 5>>

\* settings s break the configuration's invariants: maxHR <= 0, or
\* restingHR >= maxHR
InvalidConfiguration(s) == s.maxHR <= 0 \/ s.restingHR >= s.maxHR

\* C11: settings that break the configuration's invariants (maxHR <= 0, or
\* restingHR >= maxHR) are rejected before any zone boundary is computed:
\* calculateZones returns no bands for them.
C11_InvalidSettingsRejected ==
    (Returned("calculateZones") /\ InvalidConfiguration(arg.settings)) =>
        DOMAIN ret.value # 1..5

\* the Trackpoint carries a heart rate (a reading of 0 is none)
CarriesHR(p) == ~isNaN(p.hr) /\ p.hr # 0

\* the pair counts: both Trackpoints carry a heart rate and the time delta
\* lies strictly in (0, 30)
PairCounts(p1, p2) ==
    /\ CarriesHR(p1) /\ CarriesHR(p2)
    /\ ~isNaN(p1.time) /\ ~isNaN(p2.time)
    /\ p2.time - p1.time > 0 /\ p2.time - p1.time < 30

\* the pair's average heart rate lies in [band.min, band.max + 1)
InBand(band, p1, p2) ==
    2 * band.min <= p1.hr + p2.hr /\ p1.hr + p2.hr < 2 * (band.max + 1)

\* the rule allows to credit the pair to zone z of the bands d: the band of z
\* holds the average, or z is 5, no band holds it and it is maxHR or more
Fits(d, maxHR, p1, p2, z) ==
    \/ InBand(d[z], p1, p2)
    \/ /\ z = 5
       /\ \A y \in 1..5 : ~InBand(d[y], p1, p2)
       /\ p1.hr + p2.hr >= 2 * maxHR

\* the seconds of the counted pairs up to Trackpoint k that the rule allows
\* to credit to zone z, or to any zone for z = 0
RECURSIVE FitSeconds(_, _, _, _, _)
FitSeconds(file, k, d, maxHR, z) ==
    IF k < 2 THEN 0
    ELSE LET p1 == file[k - 1]
             p2 == file[k]
             fits == IF z = 0 THEN \E y \in 1..5 : Fits(d, maxHR, p1, p2, y)
                     ELSE Fits(d, maxHR, p1, p2, z)
         IN  FitSeconds(file, k - 1, d, maxHR, z)
                + (IF PairCounts(p1, p2) /\ fits THEN p2.time - p1.time ELSE 0)

\* C15: the duration of each counted pair (both Trackpoints with a heart
\* rate, time delta strictly in (0, 30)) is credited to the zone whose
\* [min, max+1) holds the pair's average heart rate, or to zone 5 when no
\* zone holds it and it is maxHR or more; a pair outside the window or
\* without a heart rate is credited to no zone.
C15_PairCreditedToItsZone ==
    Returned("getZoneDistribution") =>
        LET d == ret.value
            file == arg.file
            maxHR == arg.settings.maxHR
        IN  /\ \A z \in 1..5 :
                  d[z].seconds <= FitSeconds(file, Len(file), d, maxHR, z)
            /\ ClassifiedSeconds(d) = FitSeconds(file, Len(file), d, maxHR, 0)

\* getZoneDistribution has returned for a pair of 10 s at 195 bpm, above the
\* bands of 190/55, followed by a pair 30 s apart: 10 s in zone 5, no more
C15_Witness ==
    /\ Returned("getZoneDistribution")
    /\ Len(arg.file) = 3
    /\ arg.file[1].hr = 195 /\ arg.file[2].hr = 195 /\ CarriesHR(arg.file[3])
    /\ arg.file[2].time - arg.file[1].time = 10
    /\ arg.file[3].time - arg.file[2].time = 30
    /\ ret.value[5].seconds = 10
    /\ ClassifiedSeconds(ret.value) = 10

\* the seconds of the counted pairs up to Trackpoint k
RECURSIVE CountedSeconds(_, _)
CountedSeconds(file, k) ==
    IF k < 2 THEN 0
    ELSE CountedSeconds(file, k - 1)
            + (IF PairCounts(file[k - 1], file[k])
               THEN file[k].time - file[k - 1].time ELSE 0)

\* the seconds of the counted pairs up to Trackpoint k whose average heart
\* rate is the bottom of zone 1 or more
RECURSIVE SecondsFromZone1(_, _, _)
SecondsFromZone1(file, k, d) ==
    IF k < 2 THEN 0
    ELSE SecondsFromZone1(file, k - 1, d)
            + (IF /\ PairCounts(file[k - 1], file[k])
                  /\ file[k - 1].hr + file[k].hr >= 2 * d[1].min
               THEN file[k].time - file[k - 1].time ELSE 0)

\* the seconds of the counted pairs up to Trackpoint k that the rule allows
\* to credit to zone z and whose average no band below z holds
RECURSIVE FitSecondsNotBelow(_, _, _, _, _)
FitSecondsNotBelow(file, k, d, maxHR, z) ==
    IF k < 2 THEN 0
    ELSE LET p1 == file[k - 1]
             p2 == file[k]
         IN  FitSecondsNotBelow(file, k - 1, d, maxHR, z)
                + (IF /\ PairCounts(p1, p2)
                      /\ Fits(d, maxHR, p1, p2, z)
                      /\ \A y \in 1..(z - 1) : ~InBand(d[y], p1, p2)
                   THEN p2.time - p1.time ELSE 0)

\* C19: a counted pair is credited to one zone at most, so the seconds of the
\* five zones sum to no more than the counted seconds; an average that lies
\* in the [min, max+1) of two adjacent zones goes to the lower zone only; and
\* every counted pair whose average is zone 1's min or more is credited.
C19_OneZonePerPair ==
    Returned("getZoneDistribution") =>
        LET d == ret.value
            file == arg.file
            maxHR == arg.settings.maxHR
        IN  /\ ClassifiedSeconds(d) <= CountedSeconds(file, Len(file))
            /\ \A z \in 1..5 :
                  d[z].seconds <= FitSecondsNotBelow(file, Len(file), d, maxHR, z)
            /\ ClassifiedSeconds(d) >= SecondsFromZone1(file, Len(file), d)

\* getZoneDistribution has returned for a pair of 10 s at 150 bpm, which lies
\* in zone 2 [136, 151) and in zone 3 [150, 164) of 190/55 under KARVONEN:
\* 10 s in zone 2, none in zone 3
C19_Witness ==
    /\ Returned("getZoneDistribution")
    /\ arg.settings = Athlete(190, 55, "KARVONEN")
    /\ Len(arg.file) = 2
    /\ arg.file[1].hr = 150 /\ arg.file[2].hr = 150
    /\ arg.file[2].time - arg.file[1].time = 10
    /\ ret.value[2].seconds = 10
    /\ ret.value[3].seconds = 0

---------------------------------------------------------------------------
(* SpecMetrics: calculateGAP and calculateDecoupling applied to bounded inputs *)

\* samples for the pace adjustment: a time, a distance and an altitude, each
\* possibly missing
GapSamples ==
    {[time |-> t, altitude |-> a, distance |-> d, hr |-> NaN] :
        t \in {0, 10, NaN}, d \in {NaN, 0, 100}, a \in {NaN, 90, 100, 115}}

\* stretches of a recording for the decoupling: about half a file of steady
\* running, without time passing, without distance, without heart rate or
\* without Time elements, and a single Trackpoint
HalfSegs ==
    {Seg(50, 5, 10, 0, 150, FALSE, FALSE),
     Seg(50, 5, 12, 0, 160, FALSE, FALSE),
     Seg(49, 5, 10, 0, 150, FALSE, FALSE),
     Seg(50, 0, 10, 0, 150, FALSE, FALSE),
     Seg(50, 5, 0, 0, 150, FALSE, FALSE),
     Seg(50, 5, 10, 0, NaN, FALSE, FALSE),
     Seg(50, 5, 10, 0, 150, TRUE, FALSE),
     Seg(1, 5, 10, 0, 150, FALSE, FALSE)}

MetricCalls ==
    \/ \E p1 \in GapSamples, p2 \in GapSamples :
          Called("calculateGAP", [p1 |-> p1, p2 |-> p2])
    \/ \E segs \in SegLists(HalfSegs, MaxSegs) :
          Called("calculateDecoupling", [segs |-> segs])

CallCalculateGAP ==
    Return("calculateGAP", calculateGAP(arg.p1, arg.p2))

CallCalculateDecoupling ==
    Return("calculateDecoupling", calculateDecoupling(parseTCX(Track(arg.segs), 0)))

InitMetrics == AppInit /\ PLANS = PlanTemplates /\ MetricCalls

NextMetrics ==
    \/ CallCalculateGAP
    \/ CallCalculateDecoupling

SpecMetrics == InitMetrics /\ [][NextMetrics]_vars

\* C4 (as stated): calculateGAP returns exactly 0 when the distance delta is
\* <= 0 or the time delta is <= 0, whatever the altitude delta, and a finite
\* number (never NaN, never Infinity) for every other pair of samples.
C4_GapZeroOrFinite ==
    Returned("calculateGAP") =>
        LET dist == OrZero(arg.p2.distance) - OrZero(arg.p1.distance)
            time == Minus(arg.p2.time, arg.p1.time)
        IN  IF dist <= 0 \/ (~isNaN(time) /\ time <= 0)
            THEN ret.value = <<0, 1>>
            ELSE ret.value[2] # 0

\* the points calculateDecoupling reads for the call's arguments
DecouplingPoints == parseTCX(Track(arg.segs), 0).points

\* the half pts has a counted sample and a non-zero distance sum
HalfHasData(pts) ==
    /\ \E i \in 2..Len(pts) : HasHrAndDistance(pts[i])
    /\ EfficiencySums(pts).distSum # 0

\* C5 (as stated): calculateDecoupling returns "not computable" for every
\* trace of fewer than 100 samples, and for every trace of 100 or more samples
\* whose two halves (split at floor(n/2)) both have non-zero distance and HR
\* it returns the finite number (eff1 - eff2)/eff1 * 100.
C5_DecouplingComputable ==
    Returned("calculateDecoupling") =>
        LET pts == DecouplingPoints
            n == Len(pts)
            eff1 == getEfficiency(SubSeq(pts, 1, n \div 2))
            eff2 == getEfficiency(SubSeq(pts, (n \div 2) + 1, n))
        IN  /\ n < 100 => ret.value = null
            /\ (/\ n >= 100
                /\ HalfHasData(SubSeq(pts, 1, n \div 2))
                /\ HalfHasData(SubSeq(pts, (n \div 2) + 1, n)))
               => /\ ret.value # null
                  /\ ret.value[2] # 0
                  /\ ret.value = RMul(RDiv(RSub(eff1, eff2), eff1), Num(100))

---------------------------------------------------------------------------
(* SpecPlans: getScaledPlan called any number of times on the PLANS object, *)
(* and calculateCompliance applied to bounded inputs                        *)

\* plan ids a caller may pass: the keys of PLANS and one that is no key
RequestedPlanIds == PlanIds \cup {"marathon"}

\* the sessions of every plan at every level
ScaledSessions ==
    UNION {{getScaledPlan(PlanTemplates, p, l).sessions[i] :
               i \in 1..Len(PlanTemplates[p].sessions)} :
           p \in PlanIds, l \in RunnerLevel}

\* moving times in seconds.  With the plans' target durations these give no
\* durationScore * 0.7 + 24 that ends in .5, where the double-precision product
\* can fall on the other side of the tie than the exact one.
MovingTimes == {0, 600, 1140, 1200, 1340, 1360, 1560, 2400, 3000, 7200}

\* training effects as handleFileUpload stores them: 1.0, 4.5, 4.6, 5.0
TrainingEffects == {Dec(10, 10), Dec(45, 10), Dec(46, 10), Dec(50, 10)}

\* a run as far as calculateCompliance reads it
RunWith(movingTime, trainingEffect) ==
    [summary |-> [movingTime |-> movingTime, trainingEffect |-> trainingEffect]]

PlanCalls ==
    \/ NoCall
    \/ \E session \in ScaledSessions, m \in MovingTimes, te \in TrainingEffects :
          Called("calculateCompliance", [session |-> session, run |-> RunWith(m, te)])

\* a call getScaledPlan(planId, level); earlier calls have returned
CallGetScaledPlan ==
    \E planId \in RequestedPlanIds, level \in RunnerLevel :
        /\ fn \in {"none", "getScaledPlan"}
        /\ fn' = "getScaledPlan"
        /\ arg' = [planId |-> planId, level |-> level]
        /\ ret' = [returned |-> TRUE, value |-> getScaledPlan(PLANS, planId, level)]
        /\ PLANS' = PlansAfterScaling(PLANS, planId, level)
        /\ UNCHANGED appVars

CallCalculateCompliance ==
    Return("calculateCompliance", calculateCompliance(arg.session, arg.run))

InitPlans == AppInit /\ PLANS = PlanTemplates /\ PlanCalls

NextPlans ==
    \/ CallGetScaledPlan
    \/ CallCalculateCompliance

SpecPlans == InitPlans /\ [][NextPlans]_vars

\* ten times the factor of a level
TenfoldFactor(level) ==
    CASE level = "BEGINNER" -> 10
      [] level = "INTERMEDIATE" -> 13
      [] level = "PRO" -> 17

\* C7: getScaledPlan for a known plan returns the template with every
\* session's targetDuration replaced by round(targetDuration * factor), factor
\* 1.0, 1.3, 1.7 by level, every other field, the number and the order of the
\* sessions as in the template; and after any number of calls PLANS is still
\* the original templates.
C7_ScaledCopy ==
    /\ PLANS = PlanTemplates
    /\ (Returned("getScaledPlan") /\ arg.planId \in PlanIds) =>
          LET t == PlanTemplates[arg.planId]
              r == ret.value
          IN  /\ r.id = t.id
              /\ r.name = t.name
              /\ DOMAIN r = {"id", "name", "sessions"}
              /\ Len(r.sessions) = Len(t.sessions)
              /\ \A i \in 1..Len(t.sessions) :
                    r.sessions[i] =
                        [id |-> t.sessions[i].id,
                         day |-> t.sessions[i].day,
                         title |-> t.sessions[i].title,
                         description |-> t.sessions[i].description,
                         targetDuration |->
                            (2 * t.sessions[i].targetDuration * TenfoldFactor(arg.level)
                                + 10) \div 20,
                         targetZone |-> t.sessions[i].targetZone]

\* getScaledPlan has returned c25k for INTERMEDIATE: 20 min became 26 and
\* 25 min became 33, the template still saying 20 and 25
C7_Witness ==
    /\ Returned("getScaledPlan")
    /\ arg = [planId |-> "c25k", level |-> "INTERMEDIATE"]
    /\ ret.value.sessions[1].targetDuration = 26
    /\ ret.value.sessions[4].targetDuration = 33
    /\ PLANS.c25k.sessions[1].targetDuration = 20
    /\ PLANS.c25k.sessions[4].targetDuration = 25

C9_ComplianceNotes ==
    Returned("calculateCompliance") =>
        LET notes == ret.value.notes
            te == arg.run.summary.trainingEffect
            excellent == notes \in {"Excellent adherence to plan.",
                                    "Excellent adherence to plan. High fatigue risk."}
            deviated == notes \in {"Session intensity or duration deviated.",
                                   "Session intensity or duration deviated. High fatigue risk."}
            fatigue == notes \in {"Excellent adherence to plan. High fatigue risk.",
                                  "Session intensity or duration deviated. High fatigue risk."}
        IN  /\ excellent \/ deviated
            /\ excellent <=> ret.value.score > 85
            /\ fatigue <=> 10 * te[1] > 45 * te[2]

\* calculateCompliance has returned a score of exactly 85 for a run of
\* training effect 4.6: the notes say deviated and high fatigue risk
C9_Witness ==
    /\ Returned("calculateCompliance")
    /\ ret.value.score = 85
    /\ arg.run.summary.trainingEffect = <<23, 5>>
    /\ ret.value.notes = "Session intensity or duration deviated. High fatigue risk."

---------------------------------------------------------------------------
(* SpecIngest: parseTCX applied to bounded files *)

\* Trackpoints for the summary's times: a time and a cumulative distance,
\* each possibly missing
IngestSamples ==
    {[time |-> t, altitude |-> 100, distance |-> d, hr |-> 150] :
        t \in {0, 5, 10, 20, NaN}, d \in {NaN, 0, 100}}

\* the values new Date() takes
NowTimes == {1000, 2000}

\* Trackpoints for the climb: an altitude, possibly missing
ClimbSamples ==
    {[time |-> 0, altitude |-> a, distance |-> 0, hr |-> 150] :
        a \in {NaN, 0, 90, 100, 120}}

IngestCalls ==
    \E file \in FilesUpTo(IngestSamples, MaxPoints)
                    \cup FilesUpTo(ClimbSamples, MaxPoints), now \in NowTimes :
        Called("parseTCX", [file |-> file, now |-> now])

CallParseTCX ==
    Return("parseTCX", parseTCX(arg.file, arg.now))

InitIngest == AppInit /\ PLANS = PlanTemplates /\ IngestCalls

NextIngest == CallParseTCX

SpecIngest == InitIngest /\ [][NextIngest]_vars

\* C3 (as stated): for every file parseTCX turns into a run, movementRatio
\* lies in [0, 100], equals movingTime / elapsedTime * 100, and is 0 when
\* elapsedTime is 0.
C3_RatioWithin100 ==
    Returned("parseTCX") =>
        LET sm == ret.value.summary
            r == sm.movementRatio
        IN  /\ r[2] # 0 /\ 0 <= r[1] /\ r[1] <= 100 * r[2]
            /\ (~isNaN(sm.elapsedTime) /\ sm.elapsedTime # 0) =>
                  r[1] * sm.elapsedTime = 100 * sm.movingTime * r[2]
            /\ sm.elapsedTime = 0 => r = <<0, 1>>

\* the Trackpoints of the file that carry a time carry them in non-decreasing order
TimesInOrder(file) ==
    \A i \in 1..Len(file), j \in 1..Len(file) :
        (i < j /\ ~isNaN(file[i].time) /\ ~isNaN(file[j].time))
            => file[i].time <= file[j].time

\* C3 (amended): for every file whose timestamps are in non-decreasing order,
\* movementRatio lies in [0, 100]; it equals movingTime / elapsedTime * 100
\* when elapsedTime is > 0 and is 0 when elapsedTime is 0 or not a number.
C3_RatioWithin100InOrder ==
    (Returned("parseTCX") /\ TimesInOrder(arg.file)) =>
        LET sm == ret.value.summary
            r == sm.movementRatio
        IN  /\ r[2] # 0 /\ 0 <= r[1] /\ r[1] <= 100 * r[2]
            /\ IF ~isNaN(sm.elapsedTime) /\ sm.elapsedTime > 0
               THEN r[1] * sm.elapsedTime = 100 * sm.movingTime * r[2]
               ELSE r = <<0, 1>>

\* parseTCX has returned a run that moved for 10 of its 20 seconds: ratio 50
C3_Witness ==
    /\ Returned("parseTCX")
    /\ TimesInOrder(arg.file)
    /\ ret.value.summary.movingTime = 10
    /\ ret.value.summary.elapsedTime = 20
    /\ ret.value.summary.movementRatio = <<50, 1>>

\* the Trackpoints of the file that carry a distance carry non-negative
\* distances in non-decreasing order
DistancesInOrder(file) ==
    /\ \A i \in 1..Len(file) : isNaN(file[i].distance) \/ file[i].distance >= 0
    /\ \A i \in 1..Len(file), j \in 1..Len(file) :
          (i < j /\ ~isNaN(file[i].distance) /\ ~isNaN(file[j].distance))
              => file[i].distance <= file[j].distance

\* summary.totalDistance after the first k Trackpoints of the file
TotalDistanceAfter(file, k) ==
    parseTCX(SubSeq(file, 1, k), arg.now).summary.totalDistance

\* C12: for every file of one Trackpoint or more whose distances, where
\* present, are non-negative and non-decreasing, totalDistance is >= 0 and
\* never smaller after the first k+1 Trackpoints than after the first k.
C12_TotalDistanceMonotone ==
    (Returned("parseTCX") /\ Len(arg.file) >= 1 /\ DistancesInOrder(arg.file)) =>
        /\ ret.value.summary.totalDistance >= 0
        /\ \A k \in 1..(Len(arg.file) - 1) :
              TotalDistanceAfter(arg.file, k) <= TotalDistanceAfter(arg.file, k + 1)

\* every Trackpoint of the file carries a time and a distance
Complete(file) ==
    \A i \in 1..Len(file) : ~isNaN(file[i].time) /\ ~isNaN(file[i].distance)

\* the pair p1, p2 covers more than half a metre per second
FasterThanHalf(p1, p2) ==
    2 * (p2.distance - p1.distance) > p2.time - p1.time

\* the seconds of the pairs up to Trackpoint k whose time delta lies in
\* (0, 15] and whose speed is above 0.5 m/s
RECURSIVE MovingSecondsClosed(_, _)
MovingSecondsClosed(file, k) ==
    IF k < 2 THEN 0
    ELSE LET delta == file[k].time - file[k - 1].time
         IN  MovingSecondsClosed(file, k - 1)
                + (IF delta > 0 /\ delta <= 15 /\ FasterThanHalf(file[k - 1], file[k])
                   THEN delta ELSE 0)

\* C13: a pair adds its time delta to movingTime exactly when the delta lies
\* in (0, 15], 15 s included, and the pair's speed is above 0.5 m/s; every
\* other pair adds nothing.
C13_MovingWindowIncludes15 ==
    (Returned("parseTCX") /\ Complete(arg.file)) =>
        ret.value.summary.movingTime = MovingSecondsClosed(arg.file, Len(arg.file))

\* C14: avgPace is 0 whenever totalDistance is 0, even with movingTime > 0,
\* and movingTime / (totalDistance / 1000) otherwise; none of avgPace,
\* intensityFactor, aerobicEfficiency, vam and movementRatio is NaN or
\* Infinity.
C14_AvgPaceGuarded ==
    Returned("parseTCX") =>
        LET sm == ret.value.summary
        IN  /\ IF sm.totalDistance = 0 THEN sm.avgPace = Num(0)
               ELSE sm.avgPace = Frac(1000 * sm.movingTime, sm.totalDistance)
            /\ IsFinite(sm.avgPace)
            /\ IsFinite(sm.intensityFactor)
            /\ IsFinite(sm.aerobicEfficiency)
            /\ IsFinite(sm.vam)
            /\ IsFinite(sm.movementRatio)

\* the seconds of the pairs up to Trackpoint k that lie in the moving window
\* of the code (0 < delta < 15, speed above 0.5 m/s), a pair with a
\* Trackpoint that carries no distance adding nothing
RECURSIVE MovingSecondsPresent(_, _)
MovingSecondsPresent(file, k) ==
    IF k < 2 THEN 0
    ELSE LET p1 == file[k - 1]
             p2 == file[k]
             present == /\ ~isNaN(p1.time) /\ ~isNaN(p2.time)
                        /\ ~isNaN(p1.distance) /\ ~isNaN(p2.distance)
         IN  MovingSecondsPresent(file, k - 1)
                + (IF present /\ p2.time - p1.time > 0 /\ p2.time - p1.time < 15
                      /\ FasterThanHalf(p1, p2)
                   THEN p2.time - p1.time ELSE 0)

\* the altitude of the last Trackpoint before number i that carries one
LastKnownAltitude(file, i) ==
    LET known == {j \in 1..(i - 1) : ~isNaN(file[j].altitude)}
        last == CHOOSE j \in known : \A k \in known : k <= j
    IN  file[last].altitude

\* the change of altitude at Trackpoint i against the last known altitude,
\* 0 when the Trackpoint carries no altitude or no altitude is known before it
AltitudeChange(file, i) ==
    IF ~isNaN(file[i].altitude) /\ \E j \in 1..(i - 1) : ~isNaN(file[j].altitude)
    THEN file[i].altitude - LastKnownAltitude(file, i)
    ELSE 0

\* the sum of the positive (sign = 1) or negative (sign = -1) changes of
\* altitude up to Trackpoint k, as a magnitude
RECURSIVE ClimbUpTo(_, _, _)
ClimbUpTo(file, k, sign) ==
    IF k < 1 THEN 0
    ELSE ClimbUpTo(file, k - 1, sign)
            + (IF sign * AltitudeChange(file, k) > 0
               THEN sign * AltitudeChange(file, k) ELSE 0)

\* C16: totalAscent and totalDescent change only at a Trackpoint with an
\* altitude while an earlier altitude is known: a positive difference against
\* the last known altitude is added to totalAscent, the magnitude of a
\* negative one to totalDescent; a Trackpoint without altitude leaves the
\* carry alone, so the next altitude is compared with the one before the
\* dropout.
C16_ClimbAgainstLastKnown ==
    Returned("parseTCX") =>
        /\ ret.value.summary.totalAscent = ClimbUpTo(arg.file, Len(arg.file), 1)
        /\ ret.value.summary.totalDescent = ClimbUpTo(arg.file, Len(arg.file), -1)

\* parseTCX has returned a run of altitudes 100, none, 120: the ascent of 20
\* is taken across the dropout
C16_Witness ==
    /\ Returned("parseTCX")
    /\ Len(arg.file) = 3
    /\ arg.file[1].altitude = 100
    /\ isNaN(arg.file[2].altitude)
    /\ arg.file[3].altitude = 120
    /\ ret.value.summary.totalAscent = 20
    /\ ret.value.summary.totalDescent = 0

\* C18: parseTCX drops no Trackpoint: points holds one point per Trackpoint,
\* in file order, a missing field being absent in the point; and a missing
\* distance is not read as 0 by the moving-time accumulation: a pair with a
\* Trackpoint that carries no distance adds nothing to movingTime.
C18_MissingFieldsAbsent ==
    Returned("parseTCX") =>
        /\ Len(ret.value.points) = Len(arg.file)
        /\ \A i \in 1..Len(arg.file) :
              /\ ret.value.points[i].time = arg.file[i].time
              /\ ret.value.points[i].altitude = arg.file[i].altitude
              /\ ret.value.points[i].distance = arg.file[i].distance
              /\ ret.value.points[i].hr = arg.file[i].hr
        /\ ret.value.summary.movingTime = MovingSecondsPresent(arg.file, Len(arg.file))

---------------------------------------------------------------------------
(* Spec: the App (src/App.tsx).  While loading is true the overlay covers    *)
(* the page, so the handlers of the page run only when no upload is pending  *)
(* and handleFileUpload finishes with the settings and the activePlan of the *)
(* render it started in.                                                     *)

\* the most runs the history reaches in the model
MaxHistory == 1

\* runs.slice(0, 50)
HistoryLimit == 50

\* the files a user picks: an empty recording (or a file that is no TCX: the
\* DOMParser finds no Trackpoint), two Trackpoints, and twelve Trackpoints of a
\* steady run
UploadFiles ==
    {<<>>,
     Track(<<Seg(2, 5, 10, 0, 150, FALSE, FALSE)>>),
     Track(<<Seg(12, 5, 15, 1, 170, FALSE, FALSE)>>)}

\* the numbers typed into the Max HR and Resting HR inputs
MaxHRInputs == {180}
RestingHRInputs == {60}

\* const activePlan = useMemo(...): NoPlan stands for null
activePlan ==
    IF settings.activePlanId = NoPlan THEN undefined
    ELSE getScaledPlan(PLANS, settings.activePlanId, settings.level)

\* runs.find(r => r.id === id): the first run with that id, as a sequence of
\* at most one run
FindRun(id) ==
    IF \E i \in 1..Len(runs) : runs[i].id = id
    THEN <<runs[CHOOSE i \in 1..Len(runs) :
                    /\ runs[i].id = id
                    /\ \A j \in 1..(i - 1) : runs[j].id # id]>>
    ELSE <<>>

\* the run linked to a session in the plan view (lines 252-253)
LinkedRun(sessionId) ==
    IF settings.completedSessions[sessionId] = NoRun THEN <<>>
    ELSE FindRun(settings.completedSessions[sessionId])

\* activePlan.sessions.find(s => s.id === sessionId), as a sequence of at most
\* one session
FindSession(plan, sessionId) ==
    IF plan = undefined THEN <<>>
    ELSE SelectSeq(plan.sessions, LAMBDA x : x.id = sessionId)

\* calculateDecoupling(data) || 0
DecouplingOrZero(d) == IF d = null \/ IsNaNR(d) THEN Num(0) ELSE d

\* lines 86-92: the parsed run with trainingEffect, decoupling and, for more
\* than 10 points, gap
Enriched(data, s) ==
    LET n == Len(data.points)
        base == [trainingEffect |-> calculateTrainingEffect(data, s),
                 decoupling |-> DecouplingOrZero(calculateDecoupling(data))]
                    @@ data.summary
        summary == IF n > 10
                   THEN [gap |-> calculateGAP(data.points[1], data.points[n])] @@ base
                   ELSE base
    IN  [data EXCEPT !.summary = summary]

\* lines 94-98: the compliance record, when the upload is for a session the
\* active plan has
WithCompliance(data, sessionId, plan) ==
    LET found == IF sessionId = NoPlan THEN <<>> ELSE FindSession(plan, sessionId)
    IN  IF found = <<>> THEN data
        ELSE LET c == calculateCompliance(found[1], data)
             IN  [compliance |-> [score |-> c.score, notes |-> c.notes,
                                  sessionId |-> sessionId]] @@ data

\* the history were not cut: [data, ...prev]
PrependUncut(data, prev) == <<data>> \o prev

\* [data, ...prev].slice(0, 50)
Prepend(data, prev) ==
    LET all == <<data>> \o prev
    IN  IF Len(all) > HistoryLimit THEN SubSeq(all, 1, HistoryLimit) ELSE all

\* handleFileUpload up to the await, for one of the files and one of the
\* inputs: the Import Trace input (sessionId = NoPlan) or a session's Upload
\* input of the plan view
PickFile(files, sessionIds) ==
    \E file \in files, sessionId \in sessionIds :
        /\ ~loading
        /\ sessionId # NoPlan =>
              /\ view = "plan"
              /\ FindSession(activePlan, sessionId) # <<>>
              /\ LinkedRun(sessionId) = <<>>
        /\ loading' = TRUE
        /\ pending' = <<[file |-> file, sessionId |-> sessionId]>>
        /\ UNCHANGED <<settings, runs, activeRunId, view, PLANS, fn, arg, ret, alert>>

\* a file is picked while the history holds fewer than MaxHistory runs
BeginUpload ==
    /\ Len(runs) < MaxHistory
    /\ PickFile(UploadFiles, SessionIds \cup {NoPlan})

\* handleFileUpload after the await, parseTCX having resolved
FinishUpload ==
    \E now \in NowTimes :
        /\ loading
        /\ pending # <<>>
        /\ LET up == pending[1]
               data == WithCompliance(Enriched(parseTCX(up.file, now), settings),
                                      up.sessionId, activePlan)
           IN  /\ settings' =
                     IF "compliance" \in DOMAIN data
                     THEN [settings EXCEPT !.completedSessions[up.sessionId] = data.id]
                     ELSE settings
               /\ runs' = Prepend(data, runs)
               /\ activeRunId' = data.id
        /\ view' = "run"
        /\ loading' = FALSE
        /\ pending' = <<>>
        /\ UNCHANGED <<PLANS, fn, arg, ret, alert>>

\* the throw were to come after setView('run')
FailUploadAfterSetView ==
    /\ loading
    /\ pending # <<>>
    /\ alert' = "Error processing file."
    /\ view' = "run"
    /\ loading' = FALSE
    /\ pending' = <<>>
    /\ UNCHANGED <<settings, runs, activeRunId, PLANS, fn, arg, ret>>

\* handleFileUpload after the await, file.text() having rejected: the alert
\* of the catch block, then setLoading(false) of the finally block
FailUpload ==
    /\ loading
    /\ pending # <<>>
    /\ alert' = "Error processing file."
    /\ loading' = FALSE
    /\ pending' = <<>>
    /\ UNCHANGED <<settings, runs, activeRunId, view, PLANS, fn, arg, ret>>

\* the logo and the Feed, Training and Config buttons
SetView ==
    \E v \in {"dashboard", "plan", "settings"} :
        /\ ~loading
        /\ view' = v
        /\ UNCHANGED <<settings, runs, activeRunId, loading, pending, PLANS, fn, arg, ret, alert>>

\* a run of the feed is clicked
OpenRunFromFeed ==
    \E i \in 1..Len(runs) :
        /\ ~loading
        /\ view = "dashboard"
        /\ activeRunId' = runs[i].id
        /\ view' = "run"
        /\ UNCHANGED <<settings, runs, loading, pending, PLANS, fn, arg, ret, alert>>

\* View Stats of a completed session is clicked
OpenRunFromPlan ==
    \E sessionId \in SessionIds :
        /\ ~loading
        /\ view = "plan"
        /\ FindSession(activePlan, sessionId) # <<>>
        /\ LinkedRun(sessionId) # <<>>
        /\ activeRunId' = LinkedRun(sessionId)[1].id
        /\ view' = "run"
        /\ UNCHANGED <<settings, runs, loading, pending, PLANS, fn, arg, ret, alert>>

\* one of the two programs is clicked
SelectPlan ==
    \E pId \in {"c25k", "run10k"} :
        /\ ~loading
        /\ view = "plan"
        /\ activePlan = undefined
        /\ settings' = [settings EXCEPT !.activePlanId = pId]
        /\ UNCHANGED <<runs, activeRunId, view, loading, pending, PLANS, fn, arg, ret, alert>>

\* Reset is clicked
ResetPlan ==
    /\ ~loading
    /\ view = "plan"
    /\ activePlan # undefined
    /\ settings' = [settings EXCEPT !.activePlanId = NoPlan]
    /\ UNCHANGED <<runs, activeRunId, view, loading, pending, PLANS, fn, arg, ret, alert>>

\* a level button is clicked
SetLevel ==
    \E l \in RunnerLevel :
        /\ ~loading
        /\ view = "settings"
        /\ settings' = [settings EXCEPT !.level = l]
        /\ UNCHANGED <<runs, activeRunId, view, loading, pending, PLANS, fn, arg, ret, alert>>

\* the Max HR input changes
SetMaxHR ==
    \E n \in MaxHRInputs :
        /\ ~loading
        /\ view = "settings"
        /\ settings' = [settings EXCEPT !.maxHR = n]
        /\ UNCHANGED <<runs, activeRunId, view, loading, pending, PLANS, fn, arg, ret, alert>>

\* the Resting HR input changes
SetRestingHR ==
    \E n \in RestingHRInputs :
        /\ ~loading
        /\ view = "settings"
        /\ settings' = [settings EXCEPT !.restingHR = n]
        /\ UNCHANGED <<runs, activeRunId, view, loading, pending, PLANS, fn, arg, ret, alert>>

\* Wipe Engine Data: localStorage.clear() and a reload
Wipe ==
    /\ ~loading
    /\ view = "settings"
    /\ settings' = DEFAULT_SETTINGS
    /\ runs' = <<>>
    /\ activeRunId' = NoRun
    /\ view' = "dashboard"
    /\ UNCHANGED <<loading, pending, PLANS, fn, arg, ret, alert>>

Init == AppInit /\ PLANS = PlanTemplates /\ NoCall

Next ==
    \/ BeginUpload
    \/ FinishUpload
    \/ FailUpload
    \/ SetView
    \/ OpenRunFromFeed
    \/ OpenRunFromPlan
    \/ SelectPlan
    \/ ResetPlan
    \/ SetLevel
    \/ SetMaxHR
    \/ SetRestingHR
    \/ Wipe

Spec == Init /\ [][Next]_vars

\* C1 (as stated): a file with zero samples fails ingestion and no run is
\* made of it, so no run with an empty points sequence is in the run history
\* (nor was one enriched on the way there).
C1_NoEmptyTraceInHistory ==
    \A i \in 1..Len(runs) : Len(runs[i].points) > 0

\* C17: when the decoupling of a run cannot be computed (fewer than 100
\* points, or a half without counted points or distance) the stored summary
\* holds no decoupling, never the number 0: a stored 0 occurs only for a run
\* of 100 points or more whose two halves have equal efficiency.
C17_NoZeroForNotComputable ==
    \A i \in 1..Len(runs) :
        LET r == runs[i]
        IN  ("decoupling" \in DOMAIN r.summary /\ r.summary.decoupling = Num(0)) =>
                /\ Len(r.points) >= 100
                /\ getEfficiency(FirstHalf(r.points)) = getEfficiency(SecondHalf(r.points))

---------------------------------------------------------------------------
(* SpecHistory: the App with one recording after the other imported, each   *)
(* later than the ones before, until the history has been cut               *)

\* the most recordings imported
MaxUploads == 52

\* the seconds between the starts of two recordings
RecordingGap == 60

\* the start of the next recording
NextStart == IF runs = <<>> THEN 0 ELSE runs[1].startTime + RecordingGap

\* a recording of two Trackpoints that starts at time t
RecordingAt(t) ==
    TrackFrom(<<Seg(2, 5, 10, 0, 150, FALSE, FALSE)>>, 1, t, 0, 100, <<>>)

\* the next recording is picked in the Import Trace input
ImportNext ==
    /\ NextStart < MaxUploads * RecordingGap
    /\ PickFile({RecordingAt(NextStart)}, {NoPlan})

NextHistory ==
    \/ ImportNext
    \/ FinishUpload
    \/ FailUpload
    \/ SetView
    \/ OpenRunFromFeed

SpecHistory == Init /\ [][NextHistory]_vars

\* C20: an upload that succeeds puts the run just uploaded at the head of the
\* history, the runs held before following it in their order and the history
\* cut to 50 runs (beyond 50 the oldest run is dropped), makes that run the
\* active run and switches the view to 'run'.
C20_NewestFirstAtMost50 ==
    [][FinishUpload =>
          /\ runs'[1].points = pending[1].file
          /\ Len(runs') = (IF Len(runs) < 50 THEN Len(runs) + 1 ELSE 50)
          /\ \A i \in 2..Len(runs') : runs'[i] = runs[i - 1]
          /\ activeRunId' = runs'[1].id
          /\ view' = "run"]_vars

\* the 51st recording has been uploaded: the history holds 50 runs, the 51st
\* at its head and active, the second the oldest, the first dropped
C20_Witness ==
    /\ ~loading
    /\ Len(runs) = 50
    /\ runs[1].startTime = 50 * RecordingGap
    /\ runs[50].startTime = RecordingGap
    /\ activeRunId = runs[1].id
    /\ view = "run"

---------------------------------------------------------------------------
(* SpecSessions: the App of a runner whose stored settings hold the c25k    *)
(* plan, with one recording after the other uploaded, for the plan's first  *)
(* session or through Import Trace                                           *)

\* the session the recordings are uploaded for
UploadSessionIds == {"c25k_w1d1"}

\* useState(() => JSON.parse(localStorage.getItem('liquid_pro_settings'))):
\* the settings stored when the c25k plan was selected
InitSessions ==
    /\ settings = [DEFAULT_SETTINGS EXCEPT !.activePlanId = "c25k"]
    /\ runs = <<>>
    /\ activeRunId = NoRun
    /\ view = "dashboard"
    /\ loading = FALSE
    /\ pending = <<>>
    /\ alert = NoAlert
    /\ PLANS = PlanTemplates
    /\ NoCall

\* the next recording is picked in the session's Upload input of the plan view
UploadNextForSession ==
    /\ NextStart < MaxUploads * RecordingGap
    /\ PickFile({RecordingAt(NextStart)}, UploadSessionIds)

NextSessions ==
    \/ UploadNextForSession
    \/ ImportNext
    \/ FinishUpload
    \/ FailUpload
    \/ SetView

SpecSessions == InitSessions /\ [][NextSessions]_vars

\* C21: every entry sessionId -> runId of settings.completedSessions refers
\* to a run that is in the run history and whose compliance record carries
\* that sessionId.
C21_CompletedSessionsInHistory ==
    \A s \in SessionIds :
        settings.completedSessions[s] # NoRun =>
            \E i \in 1..Len(runs) :
                /\ runs[i].id = settings.completedSessions[s]
                /\ "compliance" \in DOMAIN runs[i]
                /\ runs[i].compliance.sessionId = s

---------------------------------------------------------------------------
(* SpecSettling: the first uploads of SpecSessions, with the promise of a    *)
(* pending upload settling: file.text() resolves or rejects, and the handler *)
(* runs to its end                                                           *)

\* the most runs the history reaches while the uploads settle
MaxSettled == 4

NextSettling ==
    \/ Len(runs) < MaxSettled /\ UploadNextForSession
    \/ Len(runs) < MaxSettled /\ ImportNext
    \/ FinishUpload
    \/ FailUpload
    \/ SetView

\* the promise of the pending upload settles and handleFileUpload runs to
\* the end of its finally block: what a step of FinishUpload and a step of
\* FailUpload have in common
Settle ==
    /\ loading
    /\ pending # <<>>
    /\ loading' = FALSE
    /\ pending' = <<>>

SpecSettling ==
    InitSessions /\ [][NextSettling]_vars /\ WF_<<loading, pending>>(Settle)

\* C22: an upload whose parsing throws leaves the run history, the active
\* run id, the view and settings.completedSessions as they were before the
\* upload; and every upload that set loading to true ends with loading false,
\* whether it succeeded or failed.
C22_FailedUploadChangesNothing ==
    /\ [][FailUpload =>
             /\ runs' = runs
             /\ activeRunId' = activeRunId
             /\ view' = view
             /\ settings'.completedSessions = settings.completedSessions]_vars
    /\ [][(FinishUpload \/ FailUpload) => ~loading']_vars
    /\ (loading ~> ~loading)

\* an upload has failed with the alert and loading is false again, the
\* history still holding the run uploaded for the session before
C22_Witness ==
    /\ alert = "Error processing file."
    /\ ~loading
    /\ pending = <<>>
    /\ Len(runs) = 1
    /\ settings.completedSessions["c25k_w1d1"] = runs[1].id
    /\ view = "run"

=============================================================================
